---- MODULE Spec2Model ----
(***************************************************************************)
(* Span instrumentation of boa and conda-build: the instrumentors'         *)
(* instrument()/uninstrument() life cycle, the wrappers they install on    *)
(* the build tool's callables, and the spans a call through a wrapped      *)
(* callable starts and ends.                                               *)
(*                                                                         *)
(* A process uses one of the two instrumentation packages (tool).  An      *)
(* attribute of an owner object is modelled by the sequence of wrapper     *)
(* span names layered on the original callable, innermost first: <<>> is   *)
(* the original itself.  Dotted names are sequences of their components.   *)
(***************************************************************************)
EXTENDS Integers, Sequences, FiniteSets, TLC

VARIABLES tool, missing, traceparent, attrs, is_instrumented, root_span,
          spans, current, stack, ret, log, ncalls, ambient

vars == <<tool, missing, traceparent, attrs, is_instrumented, root_span,
          spans, current, stack, ret, log, ncalls, ambient>>

\* ---- bounds ----
MaxLifecycle == 3
MaxStack == 4
MaxSpans == 3
MaxCalls == 2

Front(s) == SubSeq(s, 1, Len(s) - 1)

Last(s) == s[Len(s)]

Range(s) == {s[i] : i \in DOMAIN s}

\* ---- owners and the instrumentors' wrap / unwrap tables ----
BoaApi == <<"boa", "cli", "mambabuild", "api">>

CondaApi == <<"conda_build", "api">>

CondaMetadata == <<"conda_build", "metadata">>

CondaRender == <<"conda_build", "render">>

\* BoaInstrumentor._instrument: the _wrap calls, in order
BoaWraps ==
  << [module |-> BoaApi, name |-> <<"render">>, span |-> <<"boa", "api", "render">>],
     [module |-> BoaApi, name |-> <<"build">>,  span |-> <<"boa", "api", "build">>] >>

\* BoaInstrumentor._uninstrument: the unwrap calls, in order
BoaUnwraps ==
  << [owner |-> BoaApi, attr |-> "render"],
     [owner |-> BoaApi, attr |-> "build"] >>

\* CondaBuildInstrumentor._instrument: the _wrap calls, in order
CondaWraps ==
  << [module |-> CondaApi, name |-> <<"render">>,
      span |-> <<"conda_build", "api", "render">>],
     [module |-> CondaApi, name |-> <<"build">>,
      span |-> <<"conda_build", "api", "build">>],
     [module |-> CondaMetadata, name |-> <<"MetaData", "_get_contents">>,
      span |-> <<"conda_build", "MetaData", "_get_contents">>],
     [module |-> CondaMetadata, name |-> <<"MetaData", "parse_again">>,
      span |-> <<"conda_build", "MetaData", "parse_again">>],
     [module |-> CondaMetadata, name |-> <<"MetaData", "get_recipe_text">>,
      span |-> <<"conda_build", "MetaData", "get_recipe_text">>],
     [module |-> CondaMetadata, name |-> <<"MetaData", "get_output_metadata">>,
      span |-> <<"conda_build", "MetaData", "get_output_metadata">>],
     [module |-> CondaMetadata, name |-> <<"MetaData", "get_used_vars">>,
      span |-> <<"conda_build", "MetaData", "get_used_vars">>],
     [module |-> CondaRender, name |-> <<"get_env_dependencies">>,
      span |-> <<"conda_build", "render", "get_env_dependencies">>],
     [module |-> CondaRender, name |-> <<"execute_download_actions">>,
      span |-> <<"conda_build", "render", "execute_download_actions">>],
     [module |-> CondaRender, name |-> <<"get_upstream_pins">>,
      span |-> <<"conda_build", "render", "get_upstream_pins">>],
     [module |-> CondaRender, name |-> <<"add_upstream_pins">>,
      span |-> <<"conda_build", "render", "add_upstream_pins">>],
     [module |-> CondaRender, name |-> <<"finalize_metadata">>,
      span |-> <<"conda_build", "render", "finalize_metadata">>] >>

CondaMetaDataClass == <<"conda_build", "metadata", "MetaData">>

\* CondaBuildInstrumentor._uninstrument: the unwrap calls, in order
CondaUnwraps ==
  << [owner |-> CondaMetaDataClass, attr |-> "parse_again"],
     [owner |-> CondaMetaDataClass, attr |-> "_get_contents"],
     [owner |-> CondaMetaDataClass, attr |-> "get_recipe_text"],
     [owner |-> CondaMetaDataClass, attr |-> "get_output_metadata"],
     [owner |-> CondaMetaDataClass, attr |-> "get_used_vars"] >>

RootSpanName == <<"conda-build root process">>

\* wrapt resolves a dotted name below the module: the owner is the object
\* reached by all but the last component, the attribute is the last one
ResolvePath(module, name) ==
  [owner |-> module \o Front(name), attr |-> Last(name)]

WrapsOf(tl) == IF tl = "boa" THEN BoaWraps ELSE CondaWraps

TargetsOf(tl) == {ResolvePath(e.module, e.name) : e \in Range(WrapsOf(tl))}

\* ---- patching ----
\* wrapt.wrap_function_wrapper: AttributeError when the attribute is absent,
\* otherwise one more wrapper around whatever the attribute holds now
WrapFunctionWrapper(a, miss, e) ==
  LET t == ResolvePath(e.module, e.name)
  IN IF t \in miss
       THEN [ok |-> FALSE, attrs |-> a]
       ELSE [ok |-> TRUE, attrs |-> [a EXCEPT ![t] = Append(@, e.span)]]

RECURSIVE WrapAll(_, _, _, _)
\* the _wrap statements run in order; the first one that raises ends the hook
WrapAll(a, miss, entries, i) ==
  IF i > Len(entries)
    THEN [ok |-> TRUE, attrs |-> a]
    ELSE LET r == WrapFunctionWrapper(a, miss, entries[i])
         IN IF r.ok THEN WrapAll(r.attrs, miss, entries, i + 1) ELSE r

\* opentelemetry.instrumentation.utils.unwrap: puts back what the outermost
\* wrapper wraps; nothing to do when the attribute is absent or not wrapped
Unwrap(a, miss, t) ==
  IF t \in DOMAIN a /\ t \notin miss /\ a[t] # <<>>
    THEN [a EXCEPT ![t] = Front(@)]
    ELSE a

RECURSIVE UnwrapAll(_, _, _, _)
UnwrapAll(a, miss, entries, i) ==
  IF i > Len(entries)
    THEN a
    ELSE UnwrapAll(Unwrap(a, miss, entries[i]), miss, entries, i + 1)

\* ---- tracing collaborator ----
NoCtx == [kind |-> "none", id |-> 0]

AppCtx == [kind |-> "app", id |-> 0]

RemoteCtx == [kind |-> "remote", id |-> 0]

SpanCtx(id) == [kind |-> "span", id |-> id]

\* TraceContextTextMapPropagator().extract({"traceparent": value}): a remote
\* parent for a well-formed header, an empty context otherwise
Extract(tp) == IF tp = "valid" THEN RemoteCtx ELSE NoCtx

\* tracer.start_span(name, context=ctx): a new open span whose parent is the
\* span of ctx; its id is its position in spans
StartSpan(sp, name, kind, ctx) ==
  Append(sp, [name |-> name, kind |-> kind, parent |-> ctx, ends |-> 0,
              status |-> "unset", exception |-> ""])

\* Span.record_exception / Span.set_status: ignored once the span has ended
RecordException(sp, id, r) ==
  IF sp[id].ends > 0 THEN sp ELSE [sp EXCEPT ![id].exception = r.type]

SetStatusError(sp, id) ==
  IF sp[id].ends > 0 THEN sp ELSE [sp EXCEPT ![id].status = "error"]

\* Span.end(): ends counts the calls
EndSpan(sp, id) == [sp EXCEPT ![id].ends = @ + 1]


\* ---- the instrumentors' hooks ----
\* BoaInstrumentor._instrument
BoaInstrumentor_instrument(a, miss) == WrapAll(a, miss, BoaWraps, 1)

\* BoaInstrumentor._uninstrument
BoaInstrumentor_uninstrument(a, miss) == UnwrapAll(a, miss, BoaUnwraps, 1)

\* variant: the root span is also made the current span
RootStartAsCurrent(sp, cur, tp) ==
  [spans |-> StartSpan(sp, RootSpanName, "root", Extract(tp)),
   root_span |-> Len(sp) + 1,
   current |-> SpanCtx(Len(sp) + 1)]

\* the root span of CondaBuildInstrumentor._instrument: start_span with the
\* extracted context; the current context is left as it is
RootStart(sp, cur, tp) ==
  [spans |-> StartSpan(sp, RootSpanName, "root", Extract(tp)),
   root_span |-> Len(sp) + 1,
   current |-> cur]

\* CondaBuildInstrumentor._instrument: the root span first, then the wraps
CondaBuildInstrumentor_instrument(a, miss, sp, cur, tp) ==
  LET r == RootStart(sp, cur, tp)
      w == WrapAll(a, miss, CondaWraps, 1)
  IN [ok |-> w.ok, attrs |-> w.attrs, spans |-> r.spans,
      root_span |-> r.root_span, current |-> r.current]

\* variant: the root span is not ended
CondaBuildInstrumentor_uninstrument_KeepsRoot(a, miss, sp, root) ==
  [attrs |-> UnwrapAll(a, miss, CondaUnwraps, 1), spans |-> sp]

\* CondaBuildInstrumentor._uninstrument: the unwraps, then the root span's end
CondaBuildInstrumentor_uninstrument(a, miss, sp, root) ==
  [attrs |-> UnwrapAll(a, miss, CondaUnwraps, 1),
   spans |-> IF root # 0 THEN EndSpan(sp, root) ELSE sp]

\* ---- calls ----
NoResult == [kind |-> "none", val |-> 0, type |-> "", msg |-> ""]

Return(v) == [kind |-> "return", val |-> v, type |-> "", msg |-> ""]

Raise(type, msg) == [kind |-> "raise", val |-> 0, type |-> type, msg |-> msg]

\* what an original callable may do: return a value or raise
Results == {Return(42), Raise("ValueError", "bad recipe")}

\* the positional and keyword arguments of a call
CallArgs == {[pos |-> <<>>, kw |-> {}],
             [pos |-> <<"recipe">>, kw |-> {<<"config", "cfg">>}]}

\* variant: the keyword arguments are not handed on
ForwardPositionalOnly(args, kwargs) == [pos |-> args, kw |-> {}]

\* wrapped(*args, **kwargs)
Forward(args, kwargs) == [pos |-> args, kw |-> kwargs]

\* return wrapped(...): the with block hands on what the wrapped call gave
WrapperResult(r) == r

\* variant: the span is started but not made current
StartSpanNotCurrent(sp, cur, name) ==
  [spans |-> StartSpan(sp, name, "op", cur),
   current |-> cur,
   token |-> cur]

\* tracer.start_as_current_span(name, kind=INTERNAL): a span whose parent is
\* the current span, made current until the with block is left
StartAsCurrentSpan(sp, cur, name) ==
  [spans |-> StartSpan(sp, name, "op", cur),
   current |-> SpanCtx(Len(sp) + 1),
   token |-> cur]

\* variant: a failure leaves the span open
ExitSpanLeakOnRaise(sp, id, r) ==
  IF r.kind = "raise"
    THEN SetStatusError(RecordException(sp, id, r), id)
    ELSE EndSpan(sp, id)

\* variant: the span is ended first, the failure recorded afterwards
ExitSpanEndFirst(sp, id, r) ==
  IF r.kind = "raise"
    THEN SetStatusError(RecordException(EndSpan(sp, id), id, r), id)
    ELSE EndSpan(sp, id)

\* leaving the with block: a failure is recorded and sets the error status,
\* then the span is ended on either path
ExitSpan(sp, id, r) ==
  IF r.kind = "raise"
    THEN EndSpan(SetStatusError(RecordException(sp, id, r), id), id)
    ELSE EndSpan(sp, id)

OrigFrame(t, args) ==
  [kind |-> "orig", target |-> t, name |-> <<>>, inner |-> <<>>, span |-> 0,
   token |-> NoCtx, args |-> args, phase |-> "running", calls |-> 0]

WrapperFrame(t, chain, id, token, args) ==
  [kind |-> "wrapper", target |-> t, name |-> Last(chain), inner |-> Front(chain),
   span |-> id, token |-> token, args |-> args, phase |-> "started", calls |-> 0]

\* calling the callable that is the original of t under the wrappers of chain:
\* the outermost wrapper runs up to its with statement, or the original starts
Invoke(stk, sp, cur, t, chain, args) ==
  IF chain = <<>>
    THEN [stack |-> Append(stk, OrigFrame(t, args)), spans |-> sp, current |-> cur]
    ELSE LET s == StartAsCurrentSpan(sp, cur, Last(chain))
         IN [stack |-> Append(stk, WrapperFrame(t, chain, Len(sp) + 1, s.token, args)),
             spans |-> s.spans, current |-> s.current]

\* the operations the callers of the model invoke
CallTargets(tl) ==
  IF tl = "boa"
    THEN {[owner |-> BoaApi, attr |-> "render"], [owner |-> BoaApi, attr |-> "build"]}
    ELSE {[owner |-> CondaApi, attr |-> "build"],
          [owner |-> CondaMetaDataClass, attr |-> "parse_again"],
          [owner |-> CondaRender, attr |-> "finalize_metadata"]}

\* the attributes the environment may lack
MissingChoices(tl) ==
  IF tl = "boa"
    THEN {[owner |-> BoaApi, attr |-> "build"]}
    ELSE {[owner |-> CondaMetaDataClass, attr |-> "get_recipe_text"],
          [owner |-> CondaRender, attr |-> "finalize_metadata"]}

\* the spans the wrappers of the call in progress have still to start
Pending ==
  IF stack # <<>> /\ Last(stack).kind = "wrapper" /\ Last(stack).phase = "started"
    THEN Len(Last(stack).inner)
    ELSE 0

\* the whole chain of a call fits the bounds
Fits(t) ==
  /\ Len(stack) + Len(attrs[t]) + 1 <= MaxStack
  /\ Len(spans) + Len(attrs[t]) <= MaxSpans

LogEntry(call, ran, ok, root) ==
  [call |-> call, ran |-> ran, ok |-> ok, before |-> attrs, root |-> root]

Init ==
  /\ tool \in {"boa", "conda"}
  /\ missing \in {{}} \cup {{t} : t \in MissingChoices(tool)}
  /\ traceparent \in (IF tool = "conda" THEN {"unset", "valid"} ELSE {"unset"})
  /\ attrs = [t \in TargetsOf(tool) |-> <<>>]
  /\ is_instrumented = FALSE
  /\ root_span = 0
  /\ spans = <<>>
  /\ ambient \in {NoCtx, AppCtx}
  /\ current = ambient
  /\ stack = <<>>
  /\ ret = NoResult
  /\ log = <<>>
  /\ ncalls = 0

\* ---- BaseInstrumentor.instrument() ----
\* the hook _instrument runs only in the UNINSTRUMENTED state
BaseInstrumentRuns(instrumented) == ~instrumented

\* variant: the hook _uninstrument runs in every state
BaseUninstrumentAlways(instrumented) == TRUE

\* the hook _uninstrument runs only in the INSTRUMENTED state
BaseUninstrumentRuns(instrumented) == instrumented

InstrumentRejected ==
  /\ ~BaseInstrumentRuns(is_instrumented)
  /\ Len(log) < MaxLifecycle
  /\ log' = Append(log, LogEntry("instrument", FALSE, TRUE, 0))
  /\ UNCHANGED <<ambient, tool, missing, traceparent, attrs, is_instrumented, root_span,
                 spans, current, stack, ret, ncalls>>

BoaInstrument ==
  /\ tool = "boa"
  /\ BaseInstrumentRuns(is_instrumented)
  /\ Len(log) < MaxLifecycle
  /\ LET r == BoaInstrumentor_instrument(attrs, missing)
     IN /\ attrs' = r.attrs
        /\ is_instrumented' = r.ok
        /\ log' = Append(log, LogEntry("instrument", TRUE, r.ok, 0))
  /\ UNCHANGED <<ambient, tool, missing, traceparent, root_span, spans, current, stack, ret,
                 ncalls>>

CondaInstrument ==
  /\ tool = "conda"
  /\ BaseInstrumentRuns(is_instrumented)
  /\ Len(log) < MaxLifecycle
  /\ Len(spans) + Pending < MaxSpans
  /\ LET r == CondaBuildInstrumentor_instrument(attrs, missing, spans, current,
                                                traceparent)
     IN /\ attrs' = r.attrs
        /\ spans' = r.spans
        /\ root_span' = r.root_span
        /\ current' = r.current
        /\ is_instrumented' = r.ok
        /\ log' = Append(log, LogEntry("instrument", TRUE, r.ok, r.root_span))
  /\ UNCHANGED <<ambient, tool, missing, traceparent, stack, ret, ncalls>>

\* ---- BaseInstrumentor.uninstrument() ----
UninstrumentSkipped ==
  /\ ~BaseUninstrumentRuns(is_instrumented)
  /\ Len(log) < MaxLifecycle
  /\ log' = Append(log, LogEntry("uninstrument", FALSE, TRUE, 0))
  /\ UNCHANGED <<ambient, tool, missing, traceparent, attrs, is_instrumented, root_span,
                 spans, current, stack, ret, ncalls>>

BoaUninstrument ==
  /\ tool = "boa"
  /\ BaseUninstrumentRuns(is_instrumented)
  /\ Len(log) < MaxLifecycle
  /\ attrs' = BoaInstrumentor_uninstrument(attrs, missing)
  /\ is_instrumented' = FALSE
  /\ log' = Append(log, LogEntry("uninstrument", TRUE, TRUE, 0))
  /\ UNCHANGED <<ambient, tool, missing, traceparent, root_span, spans, current, stack, ret,
                 ncalls>>

CondaUninstrument ==
  /\ tool = "conda"
  /\ BaseUninstrumentRuns(is_instrumented)
  /\ Len(log) < MaxLifecycle
  /\ LET r == CondaBuildInstrumentor_uninstrument(attrs, missing, spans, root_span)
     IN /\ attrs' = r.attrs
        /\ spans' = r.spans
  /\ is_instrumented' = FALSE
  /\ log' = Append(log, LogEntry("uninstrument", TRUE, TRUE, 0))
  /\ UNCHANGED <<ambient, tool, missing, traceparent, root_span, current, stack, ret, ncalls>>

\* ---- calls through the owners' attributes ----
\* the application calls owner.attr(*pos, **kw)
Call(t, args) ==
  /\ stack = <<>>
  /\ t \in CallTargets(tool) \ missing
  /\ ncalls < MaxCalls
  /\ Fits(t)
  /\ LET r == Invoke(stack, spans, current, t, attrs[t], args)
     IN /\ stack' = r.stack
        /\ spans' = r.spans
        /\ current' = r.current
  /\ ret' = NoResult
  /\ ncalls' = ncalls + 1
  /\ UNCHANGED <<ambient, tool, missing, traceparent, attrs, is_instrumented, root_span, log>>

\* a running original calls another of the build tool's operations
NestedCall(t, args) ==
  /\ stack # <<>>
  /\ Last(stack).kind = "orig"
  /\ t \in CallTargets(tool) \ missing
  /\ ncalls < MaxCalls
  /\ Fits(t)
  /\ LET r == Invoke(stack, spans, current, t, attrs[t], args)
     IN /\ stack' = r.stack
        /\ spans' = r.spans
        /\ current' = r.current
  /\ ret' = NoResult
  /\ ncalls' = ncalls + 1
  /\ UNCHANGED <<ambient, tool, missing, traceparent, attrs, is_instrumented, root_span, log>>

\* inside the with block: return wrapped(*args, **kwargs)
WrapperInvoke ==
  /\ stack # <<>>
  /\ Last(stack).kind = "wrapper"
  /\ Last(stack).phase = "started"
  /\ LET f == Last(stack)
         g == [f EXCEPT !.phase = "invoked", !.calls = @ + 1]
         r == Invoke(Append(Front(stack), g), spans, current, f.target, f.inner,
                     Forward(f.args.pos, f.args.kw))
     IN /\ stack' = r.stack
        /\ spans' = r.spans
        /\ current' = r.current
  /\ UNCHANGED <<ambient, tool, missing, traceparent, attrs, is_instrumented, root_span,
                 ret, log, ncalls>>

\* the original returns or raises
OrigFinish(r) ==
  /\ stack # <<>>
  /\ Last(stack).kind = "orig"
  /\ stack' = Front(stack)
  /\ ret' = r
  /\ UNCHANGED <<ambient, tool, missing, traceparent, attrs, is_instrumented, root_span,
                 spans, current, log, ncalls>>

\* the wrapped call has come back: the with block is left and the wrapper
\* returns or re-raises
WrapperExit ==
  /\ stack # <<>>
  /\ Last(stack).kind = "wrapper"
  /\ Last(stack).phase = "invoked"
  /\ ret.kind # "none"
  /\ spans' = ExitSpan(spans, Last(stack).span, ret)
  /\ current' = Last(stack).token
  /\ stack' = Front(stack)
  /\ ret' = WrapperResult(ret)
  /\ UNCHANGED <<ambient, tool, missing, traceparent, attrs, is_instrumented, root_span, log,
                 ncalls>>

Next ==
  \/ InstrumentRejected
  \/ BoaInstrument
  \/ CondaInstrument
  \/ UninstrumentSkipped
  \/ BoaUninstrument
  \/ CondaUninstrument
  \/ \E t \in CallTargets(tool), args \in CallArgs : Call(t, args)
  \/ \E t \in CallTargets(tool), args \in CallArgs : NestedCall(t, args)
  \/ WrapperInvoke
  \/ \E r \in Results : OrigFinish(r)
  \/ WrapperExit

Spec == Init /\ [][Next]_vars


\* ---- properties ----
OpSpans == {i \in DOMAIN spans : spans[i].kind = "op"}

RootSpans == {i \in DOMAIN spans : spans[i].kind = "root"}

WrapperFrames == {i \in DOMAIN stack : stack[i].kind = "wrapper"}

Max(S) == CHOOSE x \in S : \A y \in S : y <= x

\* the hook executions of instrument() so far
InstrumentRuns == {i \in DOMAIN log : log[i].call = "instrument" /\ log[i].ran}

\* this step is a call of uninstrument()
UninstrumentCallStep ==
  /\ Len(log') = Len(log) + 1
  /\ Last(log').call = "uninstrument"

\* this step is a wrapper handing the call on to what it wraps
WrapperInvokeStep ==
  /\ stack # <<>>
  /\ Last(stack).kind = "wrapper"
  /\ Last(stack).phase = "started"
  /\ Len(stack') = Len(stack) + 1

\* this step is a wrapper giving control back to its caller
WrapperExitStep ==
  /\ stack # <<>>
  /\ Last(stack).kind = "wrapper"
  /\ stack' = Front(stack)

\* C1: after a successful instrument() followed by uninstrument(), every
\* (owner, attribute) holds again the callable it held before instrument()
C1_Restored ==
  (/\ Len(log) >= 2
   /\ log[Len(log)].call = "uninstrument"
   /\ log[Len(log) - 1].call = "instrument"
   /\ log[Len(log) - 1].ran
   /\ log[Len(log) - 1].ok)
  => \A t \in DOMAIN attrs : attrs[t] = log[Len(log) - 1].before[t]

C3_FailureTransparent ==
  [][(WrapperExitStep /\ ret.kind = "raise")
       => /\ ret' = ret
          /\ spans'[Last(stack).span].status = "error"
          /\ spans'[Last(stack).span].exception = ret.type
          /\ spans'[Last(stack).span].ends = 1]_vars

\* the caller of a wrapped operation has received the original's ValueError
C3_Witness ==
  /\ stack = <<>>
  /\ ret = Raise("ValueError", "bad recipe")
  /\ \E s \in OpSpans : spans[s].status = "error" /\ spans[s].exception = "ValueError"

\* C4: a wrapper calls what it wraps once, with the positional and keyword
\* arguments it was called with, and returns the value that call returned
C4_Transparent ==
  [][/\ WrapperInvokeStep
          => /\ Last(stack').args = Last(stack).args
             /\ Last(stack').target = Last(stack).target
             /\ stack'[Len(stack)].calls = 1
     /\ WrapperExitStep
          => /\ Last(stack).calls = 1
             /\ ret.kind = "return" => ret' = ret]_vars

\* the original runs under a wrapper with the caller's keyword arguments
C4_Witness ==
  /\ Len(stack) >= 2
  /\ stack[1].kind = "wrapper"
  /\ stack[Len(stack)].kind = "orig"
  /\ stack[1].args.kw # {}
  /\ stack[Len(stack)].args = stack[1].args

\* C5: the span of a wrapper invocation made during another wrapper
\* invocation has that invocation's span as its parent, and is ended before
\* its parent is
C5_Nesting ==
  /\ \A j \in WrapperFrames :
       LET below == {i \in WrapperFrames : i < j}
       IN below # {} =>
            spans[stack[j].span].parent = SpanCtx(stack[Max(below)].span)
  /\ \A s \in OpSpans :
       spans[s].parent.kind = "span" =>
         (spans[spans[s].parent.id].ends > 0 => spans[s].ends > 0)

\* operation B, called by operation A's original, has ended its span, a child
\* of A's span, while A's span is still open
C5_Witness ==
  \E s \in OpSpans :
    /\ spans[s].parent.kind = "span"
    /\ spans[spans[s].parent.id].name # spans[s].name
    /\ spans[s].ends = 1
    /\ spans[spans[s].parent.id].ends = 0

\* C6: no (owner, attribute) carries more than one layer of span wrapper
C6_SingleLayer == \A t \in DOMAIN attrs : Len(attrs[t]) <= 1

\* C7: uninstrument() called when the instrumentor was never instrumented, or
\* right after another uninstrument(), raises no fault and changes nothing
C7_UninstrumentIdempotent ==
  [][(/\ UninstrumentCallStep
      /\ \/ \A i \in DOMAIN log : log[i].call # "instrument"
         \/ (log # <<>> /\ Last(log).call = "uninstrument"))
       => /\ Last(log').ok
          /\ attrs' = attrs
          /\ spans' = spans
          /\ root_span' = root_span
          /\ current' = current
          /\ is_instrumented' = is_instrumented]_vars

\* uninstrument() has been called twice in a row after an instrument()
C7_Witness ==
  /\ Len(log) >= 3
  /\ log[Len(log) - 2].call = "instrument" /\ log[Len(log) - 2].ok
  /\ log[Len(log) - 1].call = "uninstrument" /\ log[Len(log) - 1].ran
  /\ log[Len(log)].call = "uninstrument"

\* C8: after an instrument() that failed on a missing attribute, no target
\* it wrapped is still wrapped and no root span it started is still open
C8_NoPartialState ==
  (/\ log # <<>>
   /\ Last(log).call = "instrument"
   /\ Last(log).ran
   /\ ~Last(log).ok)
  => /\ attrs = Last(log).before
     /\ Last(log).root # 0 => spans[Last(log).root].ends > 0

\* C9: (as claimed, in runs where no instrument() failed) at most one root
\* span is ever created; it has the extracted context as parent and is open
\* exactly while the instrumentor is instrumented
C9_OneRootEver ==
  (\A i \in DOMAIN log : log[i].ok)
  => /\ Cardinality(RootSpans) <= 1
     /\ \A r \in RootSpans :
          /\ spans[r].parent.kind = (IF traceparent = "valid" THEN "remote" ELSE "none")
          /\ (spans[r].ends = 0) <=> is_instrumented
          /\ spans[r].ends <= 1

\* C9 (amended): each execution of the hook _instrument starts one new root
\* span, parented to the extracted context and kept in root_span; while the
\* instrumentor is instrumented that span is open, and the uninstrument()
\* that follows ends it once
C9_RootPerInstrument ==
  /\ Cardinality(RootSpans) = (IF tool = "conda" THEN Cardinality(InstrumentRuns) ELSE 0)
  /\ \A r \in RootSpans :
       /\ spans[r].name = RootSpanName
       /\ spans[r].parent.kind = (IF traceparent = "valid" THEN "remote" ELSE "none")
       /\ spans[r].ends <= 1
  /\ RootSpans # {} => root_span = Max(RootSpans)
  /\ (tool = "conda" /\ is_instrumented) => spans[root_span].ends = 0
  /\ (tool = "conda" /\ log # <<>> /\ Last(log).call = "uninstrument" /\ Last(log).ran)
       => spans[root_span].ends = 1

\* re-instrumented: the first root span is ended, a second one is open
C9_Witness ==
  /\ is_instrumented
  /\ \E r1, r2 \in RootSpans :
       /\ r1 < r2
       /\ spans[r1].ends = 1
       /\ root_span = r2
       /\ spans[r2].ends = 0

\* C10: the root span is never the current span, so no span of a wrapped
\* operation has it as parent or ancestor; the span of a wrapped call made
\* outside every other wrapped call has the application's context as parent
C10_RootNotAmbient ==
  /\ current.kind = "span" => current.id \in OpSpans
  /\ \A s \in OpSpans :
       spans[s].parent.kind = "span" => spans[s].parent.id \in OpSpans
  /\ \A j \in WrapperFrames :
       (\A i \in WrapperFrames : i >= j) => spans[stack[j].span].parent = ambient
  /\ stack = <<>> => current = ambient

\* a wrapped operation is running while the root span is open
C10_Witness ==
  /\ tool = "conda"
  /\ root_span # 0
  /\ spans[root_span].ends = 0
  /\ \E j \in WrapperFrames : spans[stack[j].span].parent = ambient

====
